---- MODULE Spec2Model ----
(***************************************************************************)
(* Model of python-etl/src/neo4j_client.py: the Neo4jClient operations     *)
(* (ingest_company_entity, batch_ingest_companies, create_relationship,    *)
(* create_supply_chain_relationships) running as concurrent asyncio tasks  *)
(* against one graph store.  The store executes the Cypher statements of   *)
(* the source: MERGE of a node is a match followed by a create (no         *)
(* uniqueness constraint is ever declared), writes of a transaction become *)
(* visible at commit, and match_score is a float modelled in tenths.       *)
(* python-etl/src/ingest_wikidata.py contributes the request throttle of   *)
(* WikidataIngester.execute_sparql_query, on a clock counted in seconds.   *)
(***************************************************************************)
EXTENDS Integers, Sequences, FiniteSets, TLC

VARIABLES nodes, edges, now, task, calls, query_count, applied,
          clock, last_request_time, requests, sparql,
          total_execution_time, projections, sparql_query_count, pipeline

(* The state of the WikidataIngester: the clock time.time() reads, the     *)
(* time it last recorded, the instants of its outbound HTTP requests and   *)
(* its execute_sparql_query calls, its own query_count, and the run of     *)
(* run_wikidata_ingestion_pipeline.                                        *)
ingester ==
    <<clock, last_request_time, requests, sparql, sparql_query_count,
      pipeline>>

vars ==
    <<nodes, edges, now, task, calls, query_count, applied, ingester,
      total_execution_time, projections>>

----------------------------------------------------------------------------
(* Bounds of the model *)

NumTasks == 2
MaxCalls == 3
MaxRelCalls == 2
MaxScore == 2
MaxBatch == 2
MaxPairs == 2
MaxTime == 1
MaxTxAttempts == 2
MaxAttempts == 4
MaxSparqlCalls == 3
MaxClock == 3
MaxFound == 2

(* Program constants *)

Tries == 3
request_delay == 1

Tasks == 1..NumTasks
Permids == 1..2
Names == {"A", "B"}
RelNames == Names \cup {"C"}
Scores == 1..MaxScore

----------------------------------------------------------------------------
(* Data classes *)

CompanyEntity == [permid : Permids, name : Names, match_score : Scores]

(* The records the tasks ingest: every score for each permid under its own *)
(* name, and permid 2 once more under the name of permid 1.                *)
Companies ==
    { c \in CompanyEntity :
        \/ c.permid = 1 /\ c.name = "A"
        \/ c.permid = 2 /\ c.name = "B"
        \/ c.permid = 2 /\ c.name = "A" /\ c.match_score = 2 }

(* The dataclass-generated __init__ of CompanyEntity: it stores the fields *)
(* it is given and raises nothing.                                         *)
NewCompanyEntity(permid, name, match_score) ==
    [permid |-> permid, name |-> name, match_score |-> match_score]

(* The entities a caller obtains from the constructor for the given fields *)
Constructed(P, N, S) ==
    {NewCompanyEntity(p, n, s) : p \in P, n \in N, s \in S}

RelTypes == {"SUPPLY_COMPONENTS", "COMPETES_WITH"}

RelProps == {("strength" :> 8), ("strength" :> 9 @@ "market_segment" :> 1)}

RelationshipData ==
    [source_name : RelNames, target_name : RelNames,
     relationship_type : RelTypes, properties : RelProps]

(* The (supplier, customer) pairs the tasks link: both names ingested, the *)
(* customer never ingested, the supplier never ingested.                   *)
Pairs == {<<"A", "B">>, <<"B", "A">>, <<"A", "C">>, <<"C", "B">>}

Relationships ==
    {r \in RelationshipData : <<r.source_name, r.target_name>> \in Pairs}

NoRel ==
    [source_name |-> "A", target_name |-> "A",
     relationship_type |-> "COMPETES_WITH", properties |-> ("strength" :> 8)]

SeqsUpTo(S, n) == UNION {[1..k -> S] : k \in 0..n}

----------------------------------------------------------------------------
(* Errors of the store and the retry decorator *)

Retryable == {"ServiceUnavailable", "TransientError"}

Outcomes == {"ok", "ClientError"} \cup Retryable

AllOk == <<"ok", "ok", "ok">>

Plans ==
    { <<"ok", "ok", "ok">>,
      <<"ServiceUnavailable", "TransientError", "ok">>,
      <<"TransientError", "TransientError", "ServiceUnavailable">>,
      <<"ClientError", "ok", "ok">> }

OutcomeAt(plan, k) == IF k <= Len(plan) THEN plan[k] ELSE plan[Len(plan)]

AfterFailureForever(kind, made) ==
    IF kind \in Retryable THEN "retry" ELSE "raise"

AfterFailureAny(kind, made) == IF made < Tries THEN "retry" ELSE "raise"

(* What follows a failed attempt of execute_query.  retry's loop wraps the *)
(* call f(), which for an async def only builds the coroutine; the error   *)
(* is raised when the caller awaits it, outside the loop.                  *)
AfterFailure(kind, made) == "raise"

----------------------------------------------------------------------------
(* Store helpers *)

Max(a, b) == IF a > b THEN a ELSE b

NodesWithPermid(ns, p) == {i \in 1..Len(ns) : ns[i].permid = p}

NodesWithName(ns, n) == {i \in 1..Len(ns) : ns[i].name = n}

Idle ==
    [pc |-> "idle", op |-> "none", companies |-> <<>>, rel |-> NoRel,
     pairs |-> <<>>, plan |-> <<"ok", "ok", "ok">>, attempts |-> 0, idx |-> 1,
     pending |-> <<>>, status |-> "NONE", raised |-> "none",
     success_count |-> 0, error_count |-> 0, total |-> 0,
     relationships_created |-> 0, rolled_back |-> 0,
     session |-> "none", commits |-> 0, rollbacks |-> 0,
     start_time |-> 0, name |-> "none", replaced |-> {},
     ingested_count |-> 0, ran |-> <<>>, results |-> <<>>]

SessionScopeLeak(how) == IF how = "raise" THEN "open" ELSE "closed"

(* session_scope: the session the scope yielded is closed in its finally   *)
(* clause, however the scope is left ("return" or "raise").                *)
SessionScope(how) == "closed"

Free(t) == task[t].pc \in {"idle", "done"}

Busy == {t \in Tasks : ~Free(t)}

(* A regime env of the callers and the store: the fault plans the store   *)
(* may follow, how many calls may be open at once (1: the caller awaits    *)
(* each call before it makes the next), how many calls are made and the    *)
(* entities the callers have constructed.                                  *)
MayCall(t, env) ==
    /\ Free(t)
    /\ calls < env.budget
    /\ Cardinality(Busy) < env.inflight

IdleSparql ==
    [pc |-> "idle", wake |-> 0, status |-> "none", result |-> "none"]

(* The locals of run_wikidata_ingestion_pipeline and ingest_to_neo4j *)
IdlePipeline ==
    [pc |-> "idle", all_entities |-> <<>>, unique_entities |-> <<>>,
     seen_labels |-> {}, idx |-> 1, base_permid |-> 0, companies |-> <<>>,
     status |-> "NONE"]

(* WikidataIngester.__init__; time.time() is far beyond request_delay *)
InitIngester ==
    /\ pipeline = IdlePipeline
    /\ clock = request_delay
    /\ last_request_time = 0
    /\ sparql_query_count = 0
    /\ requests = <<>>
    /\ sparql = [t \in Tasks |-> IdleSparql]

ProjectionNames == {"supply_chain_graph", "test_supply_chain"}

(* self.total_execution_time = 0.0; the graph catalog of the store holds   *)
(* under each name the graphs projected (their node counts), none at first. *)
InitMetrics ==
    /\ total_execution_time = 0
    /\ projections = [n \in ProjectionNames |-> {}]

Init ==
    /\ nodes = <<>>
    /\ edges = <<>>
    /\ now = 0
    /\ task = [t \in Tasks |-> Idle]
    /\ calls = 0
    /\ query_count = 0
    /\ applied = [p \in Permids |-> 0]
    /\ InitIngester
    /\ InitMetrics

----------------------------------------------------------------------------
(* The upsert statement: MERGE (c:Company {permid}) ON CREATE / ON MATCH *)

(* ON CREATE SET of ingest_company_entity and batch_ingest_companies *)
OnCreate(c, tag) ==
    [permid |-> c.permid, name |-> c.name, match_score |-> c.match_score,
     ingestion_date |-> now, created_by |-> tag]

OnMatchScoreOverwrite(new, stored) == new

(* ON MATCH SET c.match_score = CASE WHEN $match_score > c.match_score ... *)
OnMatchScore(new, stored) == IF new > stored THEN new ELSE stored

CreatedBy(op) == IF op = "ingest" THEN "python_etl" ELSE "python_etl_batch"

MergeCompanyBlind(ns, pend, c, tag) ==
    IF NodesWithPermid(ns, c.permid) = {}
    THEN Append(pend, [kind |-> "create", node |-> OnCreate(c, tag),
                       ids |-> {}])
    ELSE Append(pend, [kind |-> "setmax", node |-> OnCreate(c, tag),
                       ids |-> NodesWithPermid(ns, c.permid)])

(* One row of the statement, run inside an open transaction: the MERGE     *)
(* matches the committed nodes and the nodes this transaction created; it  *)
(* creates a node only when it matched none.                               *)
MergeCompany(ns, pend, c, tag) ==
    LET own == {j \in 1..Len(pend) :
                   pend[j].kind = "create" /\ pend[j].node.permid = c.permid}
        matched == NodesWithPermid(ns, c.permid)
        upd == [j \in 1..Len(pend) |->
                   IF j \in own
                   THEN [pend[j] EXCEPT !.node.match_score =
                            OnMatchScore(c.match_score, @)]
                   ELSE pend[j]]
    IN  IF own = {} /\ matched = {}
        THEN Append(pend, [kind |-> "create", node |-> OnCreate(c, tag),
                           ids |-> {}])
        ELSE IF matched = {}
        THEN upd
        ELSE Append(upd, [kind |-> "setmax", node |-> OnCreate(c, tag),
                          ids |-> matched])

(* RETURN count(c): the rows one entity row contributes, one per node the  *)
(* MERGE matched, or one for the node it created.                          *)
MergedRows(ns, pend, c) ==
    LET own == {j \in 1..Len(pend) :
                   pend[j].kind = "create" /\ pend[j].node.permid = c.permid}
    IN  Max(1, Cardinality(NodesWithPermid(ns, c.permid)) + Cardinality(own))

OnMatchAll(stored, new) ==
    [new EXCEPT !.match_score = OnMatchScore(new.match_score,
                                             stored.match_score)]

(* ON MATCH SET c.match_score = CASE ... END, c.last_updated = datetime()  *)
(* on a matched node: no other property of the node is written.            *)
OnMatch(stored, new) ==
    [stored EXCEPT !.match_score = OnMatchScore(new.match_score, @)]

(* Commit of the upserts of one transaction, in statement order.  The SET  *)
(* of ON MATCH reads the score under the node's write lock, so it is       *)
(* applied to the value committed at that moment.                          *)
RECURSIVE ApplyUpserts(_, _)
ApplyUpserts(ns, pend) ==
    IF pend = <<>> THEN ns
    ELSE LET o == Head(pend)
             ns1 == IF o.kind = "create"
                    THEN Append(ns, o.node)
                    ELSE [i \in 1..Len(ns) |->
                             IF i \in o.ids
                             THEN OnMatch(ns[i], o.node)
                             ELSE ns[i]]
         IN  ApplyUpserts(ns1, Tail(pend))

----------------------------------------------------------------------------
(* Calls of the client *)

QueryCountedAlways(count, how) == count + 1

(* self.query_count += 1 stands after the result has been read, inside the *)
(* try: a call that returns counts, a call that raises does not.           *)
QueryCounted(count, how) == IF how = "return" THEN count + 1 ELSE count

(* execution_time = time.time() - start_time *)
ExecutionTime(start_time) == clock - start_time

StartQuery(op, plan) ==
    [Idle EXCEPT !.pc = "query", !.op = op, !.plan = plan,
                 !.session = "open", !.start_time = clock]

ingest_company_entity(t, env) ==
    /\ MayCall(t, env)
    /\ \E company \in env.records, plan \in env.plans :
          task' = [task EXCEPT ![t] =
                      [StartQuery("ingest", plan) EXCEPT
                          !.companies = <<company>>]]
    /\ calls' = calls + 1
    /\ UNCHANGED <<ingester, total_execution_time, projections>>
    /\ UNCHANGED <<nodes, edges, now, query_count, applied>>

EmptyNever(companies) == FALSE

(* if not companies: return {'success_count': 0, 'error_count': 0,         *)
(* 'total': 0}                                                             *)
Empty(companies) == companies = <<>>

(* An UNWIND of no entity has no row to run: the statement is left to be   *)
(* consumed and committed.                                                 *)
batch_ingest_companies(t, env) ==
    /\ MayCall(t, env)
    /\ \E companies \in SeqsUpTo(env.records, MaxBatch), plan \in env.plans :
          task' = [task EXCEPT ![t] =
                      IF Empty(companies)
                      THEN [Idle EXCEPT !.pc = "done", !.op = "batch"]
                      ELSE [StartQuery("batch", plan) EXCEPT
                               !.pc = IF companies = <<>>
                                      THEN "commit" ELSE @,
                               !.companies = companies,
                               !.total = Len(companies)]]
    /\ calls' = calls + 1
    /\ UNCHANGED <<ingester, total_execution_time, projections>>
    /\ UNCHANGED <<nodes, edges, now, query_count, applied>>

----------------------------------------------------------------------------
(* execute_query: one auto-commit transaction per attempt *)

ExceptNeo4jError(kind) ==
    IF kind \in {"TransientError", "ClientError"} THEN "ERROR" ELSE "RAISED"

(* except Exception as e: return {..., 'status': 'ERROR', ...} of the      *)
(* methods: whatever execute_query or execute_write_transaction raised is  *)
(* caught and a result is returned ("RAISED": it reaches the caller).      *)
Except(kind) == "ERROR"

(* The result a method hands to its caller when execute_query raised *)
Caught(r, kind) ==
    [Idle EXCEPT !.pc = "done", !.op = r.op, !.attempts = r.attempts + 1,
                 !.status = Except(kind), !.raised = kind, !.total = r.total,
                 !.error_count = r.total,
                 !.session = SessionScope("raise"),
                 !.commits = r.commits, !.rollbacks = r.rollbacks + 1]

(* An attempt fails: the session closes, nothing was committed *)
QueryFail(t) ==
    LET r == task[t]
        kind == OutcomeAt(r.plan, r.attempts + 1)
    IN  /\ r.pc = "query"
        /\ kind # "ok"
        /\ r.attempts < MaxAttempts
        /\ task' = [task EXCEPT ![t] =
                       IF AfterFailure(kind, r.attempts + 1) = "retry"
                       THEN [r EXCEPT !.attempts = @ + 1,
                                      !.rollbacks = @ + 1]
                       ELSE Caught(r, kind)]
        /\ UNCHANGED <<ingester, total_execution_time, projections>>
        /\ UNCHANGED <<nodes, edges, now, calls, applied>>
        /\ query_count' = QueryCounted(query_count, "raise")

AbortedPartial(ns, pend) == ApplyUpserts(ns, pend)

(* The nodes of the store after the auto-commit transaction of a statement *)
(* has failed: the server rolls it back.                                   *)
Aborted(ns, pend) == ns

(* The statement fails while its rows are processed or when its            *)
(* transaction commits: execute_query raises what session.run or the       *)
(* consumption of the result raised.                                       *)
StatementFail(t) ==
    LET r == task[t]
    IN  /\ r.pc \in {"run", "commit"}
        /\ r.op \in {"ingest", "batch"}
        /\ r.attempts <= MaxAttempts
        /\ \E kind \in {"TransientError", "ClientError"} :
              task' = [task EXCEPT ![t] =
                          IF AfterFailure(kind, r.attempts) = "retry"
                          THEN [r EXCEPT !.pc = "query", !.idx = 1,
                                         !.rollbacks = @ + 1,
                                         !.pending = <<>>]
                          ELSE [Caught([r EXCEPT !.attempts = @ - 1], kind)
                                   EXCEPT !.companies = r.companies,
                                          !.rolled_back = Len(r.pending)]]
        /\ nodes' = Aborted(nodes, r.pending)
        /\ UNCHANGED <<ingester, total_execution_time, projections>>
        /\ UNCHANGED <<edges, now, calls, applied>>
        /\ query_count' = QueryCounted(query_count, "raise")

(* session.run of an upsert statement: the next row of the statement *)
RunUpsert(t) ==
    LET r == task[t]
        first == r.pc = "query"
    IN  /\ r.pc \in {"query", "run"}
        /\ r.op \in {"ingest", "batch"}
        /\ first => OutcomeAt(r.plan, r.attempts + 1) = "ok"
        /\ task' = [task EXCEPT ![t] =
                       [r EXCEPT
                          !.pc = IF r.idx = Len(r.companies)
                                 THEN "commit" ELSE "run",
                          !.attempts = IF first THEN @ + 1 ELSE @,
                          !.idx = @ + 1,
                          !.ingested_count =
                              @ + MergedRows(nodes, r.pending,
                                             r.companies[r.idx]),
                          !.pending = MergeCompany(nodes, @,
                                         r.companies[r.idx],
                                         CreatedBy(r.op))]]
        /\ UNCHANGED <<ingester, total_execution_time, projections>>
        /\ UNCHANGED <<nodes, edges, now, calls, query_count, applied>>

(* The highest match_score a call sends for permid p (0: none) *)
Sent(companies, p) ==
    LET S == {companies[i].match_score : i \in
                 {j \in 1..Len(companies) : companies[j].permid = p}}
    IN  IF S = {} THEN 0 ELSE CHOOSE m \in S : \A x \in S : x <= m

(* The statement is consumed and the transaction commits; execute_query    *)
(* counts the query and the method builds its result.                      *)
CommitUpsert(t) ==
    LET r == task[t]
    IN  /\ r.pc = "commit"
        /\ r.op \in {"ingest", "batch"}
        /\ nodes' = ApplyUpserts(nodes, r.pending)
        /\ query_count' = QueryCounted(query_count, "return")
        /\ total_execution_time' =
              total_execution_time + ExecutionTime(r.start_time)
        /\ applied' = [p \in Permids |-> Max(applied[p], Sent(r.companies, p))]
        /\ task' = [task EXCEPT ![t] =
                       [Idle EXCEPT !.pc = "done", !.op = r.op,
                                    !.companies = r.companies,
                                    !.attempts = r.attempts,
                                    !.status = "SUCCESS",
                                    !.session = SessionScope("return"),
                                    !.commits = r.commits + 1,
                                    !.rollbacks = r.rollbacks,
                                    !.total = r.total,
                                    !.success_count =
                                        IF r.op = "batch"
                                        THEN r.ingested_count ELSE 0]]
        /\ UNCHANGED <<ingester, projections>>
        /\ UNCHANGED <<edges, now, calls>>

----------------------------------------------------------------------------
(* Relationship statements *)

SupplyProps(at) ==
    ("created_date" :> at @@ "confidence" :> 9 @@
     "relationship_source" :> "etl_pipeline")

(* r += $properties: the new keys are written over the stored map *)
SetProps(stored, new) ==
    [k \in DOMAIN stored \cup DOMAIN new |->
        IF k \in DOMAIN new THEN new[k] ELSE stored[k]]

HasProps(e, pat) ==
    \A k \in DOMAIN pat : k \in DOMAIN e.props /\ e.props[k] = pat[k]

(* MATCH (source:Company {name}) MATCH (target:Company {name}): the rows   *)
(* of the statement, one per pair of matching nodes; no match, no row.     *)
EndpointRows(ns, source_name, target_name) ==
    LET n == Len(ns)
        all == [k \in 1..(n * n) |-> <<((k - 1) \div n) + 1, ((k - 1) % n) + 1>>]
    IN  SelectSeq(all, LAMBDA pr : /\ ns[pr[1]].name = source_name
                                   /\ ns[pr[2]].name = target_name)

EdgeOps(rows, kind, type, props, at) ==
    [i \in 1..Len(rows) |->
        [kind |-> kind, src |-> rows[i][1], tgt |-> rows[i][2],
         type |-> type, props |-> props, at |-> at]]

(* MERGE (source)-[r:TYPE]->(target) ON CREATE SET ... ON MATCH SET ...    *)
(* of create_relationship: the pattern carries no property.                *)
MergeRel(es, o) ==
    LET hit == {i \in 1..Len(es) : /\ es[i].src = o.src /\ es[i].tgt = o.tgt
                                   /\ es[i].type = o.type}
    IN  IF hit = {}
        THEN Append(es, [src |-> o.src, tgt |-> o.tgt, type |-> o.type,
                         props |-> SetProps(o.props, "created_date" :> o.at)])
        ELSE [i \in 1..Len(es) |->
                 IF i \in hit
                 THEN [es[i] EXCEPT !.props =
                          SetProps(SetProps(@, o.props), "last_updated" :> o.at)]
                 ELSE es[i]]

(* MERGE (supplier)-[:SUPPLY_COMPONENTS {created_date: datetime(), ...}]-> *)
(* (customer) of create_supply_chain_relationships: the pattern matches an *)
(* edge only if it carries every property of the pattern, created_date     *)
(* included.                                                               *)
MergeSupply(es, o) ==
    LET hit == {i \in 1..Len(es) : /\ es[i].src = o.src /\ es[i].tgt = o.tgt
                                   /\ es[i].type = o.type
                                   /\ HasProps(es[i], o.props)}
    IN  IF hit = {}
        THEN Append(es, [src |-> o.src, tgt |-> o.tgt, type |-> o.type,
                         props |-> o.props])
        ELSE es

(* Commit of the edge statements of one transaction, in statement order.   *)
(* A MERGE between bound nodes locks both nodes, so it sees every edge     *)
(* committed between them.                                                 *)
RECURSIVE ApplyEdges(_, _)
ApplyEdges(es, pend) ==
    IF pend = <<>> THEN es
    ELSE LET o == Head(pend)
         IN  ApplyEdges(IF o.kind = "merge_rel" THEN MergeRel(es, o)
                        ELSE MergeSupply(es, o), Tail(pend))

(* The store's clock, read by datetime() *)
Tick ==
    /\ now < MaxTime
    /\ now' = now + 1
    /\ UNCHANGED <<ingester, total_execution_time, projections>>
    /\ UNCHANGED <<nodes, edges, task, calls, query_count, applied>>

create_relationship(t, env) ==
    /\ MayCall(t, env)
    /\ \E relationship \in Relationships, plan \in env.plans :
          task' = [task EXCEPT ![t] =
                      [StartQuery("rel", plan) EXCEPT !.rel = relationship]]
    /\ calls' = calls + 1
    /\ UNCHANGED <<ingester, total_execution_time, projections>>
    /\ UNCHANGED <<nodes, edges, now, query_count, applied>>

(* session.run of the relationship statement *)
RunRel(t) ==
    LET r == task[t]
    IN  /\ r.pc = "query"
        /\ r.op = "rel"
        /\ OutcomeAt(r.plan, r.attempts + 1) = "ok"
        /\ task' = [task EXCEPT ![t] =
                       [r EXCEPT
                          !.pc = "commit",
                          !.attempts = @ + 1,
                          !.pending =
                              EdgeOps(EndpointRows(nodes, r.rel.source_name,
                                                   r.rel.target_name),
                                      "merge_rel", r.rel.relationship_type,
                                      r.rel.properties, now)]]
        /\ UNCHANGED <<ingester, total_execution_time, projections>>
        /\ UNCHANGED <<nodes, edges, now, calls, query_count, applied>>

RelResultAlways(pend) == "OK"

(* return results[0] if results else {'status': 'FAILED'} *)
RelResult(pend) == IF pend = <<>> THEN "FAILED" ELSE "OK"

CommitRel(t) ==
    LET r == task[t]
    IN  /\ r.pc = "commit"
        /\ r.op = "rel"
        /\ edges' = ApplyEdges(edges, r.pending)
        /\ query_count' = QueryCounted(query_count, "return")
        /\ total_execution_time' =
              total_execution_time + ExecutionTime(r.start_time)
        /\ task' = [task EXCEPT ![t] =
                       [Idle EXCEPT !.pc = "done", !.op = r.op,
                                    !.attempts = r.attempts,
                                    !.session = SessionScope("return"),
                                    !.commits = r.commits + 1,
                                    !.rollbacks = r.rollbacks,
                                    !.status = RelResult(r.pending)]]
        /\ UNCHANGED <<ingester, projections>>
        /\ UNCHANGED <<nodes, now, calls, applied>>

----------------------------------------------------------------------------
(* create_supply_chain_relationships over execute_write_transaction *)

PairLists == SeqsUpTo(Pairs, MaxPairs)

create_supply_chain_relationships(t, env) ==
    /\ MayCall(t, env)
    /\ \E supplier_customer_pairs \in PairLists :
          task' = [task EXCEPT ![t] =
                      [Idle EXCEPT !.pc = "tx", !.op = "supply",
                                   !.session = "open",
                                   !.pairs = supplier_customer_pairs]]
    /\ calls' = calls + 1
    /\ UNCHANGED <<ingester, total_execution_time, projections>>
    /\ UNCHANGED <<nodes, edges, now, query_count, applied>>

(* The statement tx_function runs in its k-th iteration *)
StatementAt(queries, k) == queries[k]

(* records of a statement without RETURN clause: it yields no record *)
Records(rows) == <<>>

AppendedLast(results, records) == <<records>>

(* results.append(records) *)
Appended(results, records) == Append(results, records)

(* tx.run of the next statement of tx_function *)
TxRun(t) ==
    LET r == task[t]
    IN  /\ r.pc = "tx"
        /\ r.idx <= Len(r.pairs)
        /\ LET q == StatementAt(r.pairs, r.idx)
                rows == EndpointRows(nodes, q[1], q[2])
           IN  task' = [task EXCEPT ![t] =
                           [r EXCEPT
                              !.idx = @ + 1,
                              !.ran = Append(@, q),
                              !.results = Appended(@, Records(rows)),
                              !.pending = @ \o
                                  EdgeOps(rows, "merge_supply",
                                          "SUPPLY_COMPONENTS",
                                          SupplyProps(now), now)]]
        /\ UNCHANGED <<ingester, total_execution_time, projections>>
        /\ UNCHANGED <<nodes, edges, now, calls, query_count, applied>>

RolledBackPartial(es, pend) == ApplyEdges(es, pend)

(* The edges of the store after a transaction scope is rolled back *)
RolledBack(es, pend) == es

(* A statement or the commit fails: session.execute_write rolls the scope  *)
(* back, runs tx_function again on a retryable error, else raises; the     *)
(* method catches what is raised.                                          *)
TxFail(t) ==
    LET r == task[t]
    IN  /\ r.pc = "tx"
        /\ \E kind \in {"TransientError", "ClientError"} :
              task' = [task EXCEPT ![t] =
                          IF kind \in Retryable /\ r.attempts + 1 < MaxTxAttempts
                          THEN [r EXCEPT !.attempts = @ + 1, !.idx = 1,
                                         !.rollbacks = @ + 1,
                                         !.ran = <<>>, !.results = <<>>,
                                         !.pending = <<>>]
                          ELSE [Idle EXCEPT !.pc = "done", !.op = r.op,
                                            !.attempts = r.attempts + 1,
                                            !.idx = r.idx,
                                            !.status = Except(kind),
                                            !.raised = kind,
                                            !.session = SessionScope("raise"),
                                            !.commits = r.commits,
                                            !.rollbacks = r.rollbacks + 1,
                                            !.rolled_back = Len(r.pending)]]
        /\ edges' = RolledBack(edges, r.pending)
        /\ UNCHANGED <<ingester, total_execution_time, projections>>
        /\ UNCHANGED <<nodes, now, calls, query_count, applied>>

(* tx_function returned: the scope commits and the method reports success *)
TxCommit(t) ==
    LET r == task[t]
    IN  /\ r.pc = "tx"
        /\ r.idx > Len(r.pairs)
        /\ edges' = ApplyEdges(edges, r.pending)
        /\ task' = [task EXCEPT ![t] =
                       [Idle EXCEPT !.pc = "done", !.op = r.op,
                                    !.attempts = r.attempts + 1,
                                    !.status = "SUCCESS",
                                    !.session = SessionScope("return"),
                                    !.commits = r.commits + 1,
                                    !.rollbacks = r.rollbacks,
                                    !.ran = r.ran, !.results = r.results,
                                    !.relationships_created = Len(r.pairs)]]
        /\ UNCHANGED <<ingester, total_execution_time, projections>>
        /\ UNCHANGED <<nodes, now, calls, query_count, applied>>

----------------------------------------------------------------------------
(* Graph projections: create_graph_projection and drop_graph_projection *)

StartProjection(op, projection_name) ==
    [Idle EXCEPT !.pc = "drop", !.op = op, !.name = projection_name,
                 !.session = "open", !.start_time = clock]

create_graph_projection(t, env) ==
    /\ MayCall(t, env)
    /\ \E projection_name \in ProjectionNames :
          task' = [task EXCEPT ![t] =
                      StartProjection("project", projection_name)]
    /\ calls' = calls + 1
    /\ UNCHANGED ingester
    /\ UNCHANGED <<nodes, edges, now, query_count, applied,
                   total_execution_time, projections>>

drop_graph_projection(t, env) ==
    /\ MayCall(t, env)
    /\ \E projection_name \in ProjectionNames :
          task' = [task EXCEPT ![t] = StartProjection("drop", projection_name)]
    /\ calls' = calls + 1
    /\ UNCHANGED ingester
    /\ UNCHANGED <<nodes, edges, now, query_count, applied,
                   total_execution_time, projections>>

DroppedNothing(catalog, projection_name) == catalog

(* CALL gds.graph.drop($projection_name, false): the projection leaves the *)
(* catalog; a missing one is no error.                                     *)
Dropped(catalog, projection_name) ==
    [catalog EXCEPT ![projection_name] = {}]

(* The drop statement returns: drop_graph_projection is done, and          *)
(* create_graph_projection goes on to its second execute_query.            *)
DropRun(t) ==
    LET r == task[t]
    IN  /\ r.pc = "drop"
        /\ projections' = Dropped(projections, r.name)
        /\ query_count' = QueryCounted(query_count, "return")
        /\ total_execution_time' =
              total_execution_time + ExecutionTime(r.start_time)
        /\ task' = [task EXCEPT ![t] =
                       IF r.op = "project"
                       THEN [r EXCEPT !.pc = "project", !.attempts = @ + 1,
                                      !.commits = @ + 1, !.start_time = clock,
                                      !.replaced = projections[r.name]]
                       ELSE [r EXCEPT !.pc = "done", !.attempts = @ + 1,
                                      !.commits = @ + 1, !.status = "OK",
                                      !.replaced = projections[r.name],
                                      !.session = SessionScope("return")]]
        /\ UNCHANGED ingester
        /\ UNCHANGED <<nodes, edges, now, calls, applied>>

(* The drop statement raises: create_graph_projection swallows it (except: *)
(* pass), drop_graph_projection lets it reach its caller.                  *)
DropFail(t) ==
    LET r == task[t]
    IN  /\ r.pc = "drop"
        /\ \E kind \in {"ServiceUnavailable", "ClientError"} :
              task' = [task EXCEPT ![t] =
                          IF r.op = "project"
                          THEN [r EXCEPT !.pc = "project", !.attempts = @ + 1,
                                         !.rollbacks = @ + 1,
                                         !.start_time = clock]
                          ELSE [r EXCEPT !.pc = "done", !.attempts = @ + 1,
                                         !.rollbacks = @ + 1,
                                         !.status = "RAISED", !.raised = kind,
                                         !.session = SessionScope("raise")]]
        /\ query_count' = QueryCounted(query_count, "raise")
        /\ UNCHANGED ingester
        /\ UNCHANGED <<nodes, edges, now, calls, applied,
                       total_execution_time, projections>>

(* CALL gds.graph.project($projection_name, 'Company', ...): the catalog   *)
(* gets a graph over the Company nodes of the store; the procedure fails   *)
(* when the catalog already holds a graph of that name.                    *)
ProjectRun(t) ==
    LET r == task[t]
        free == projections[r.name] = {}
    IN  /\ r.pc = "project"
        /\ projections' =
              IF free THEN [projections EXCEPT ![r.name] = {Len(nodes)}]
              ELSE projections
        /\ query_count' =
              QueryCounted(query_count, IF free THEN "return" ELSE "raise")
        /\ total_execution_time' =
              IF free
              THEN total_execution_time + ExecutionTime(r.start_time)
              ELSE total_execution_time
        /\ task' = [task EXCEPT ![t] =
                       IF free
                       THEN [r EXCEPT !.pc = "done", !.attempts = @ + 1,
                                      !.commits = @ + 1, !.status = "OK",
                                      !.session = SessionScope("return")]
                       ELSE [r EXCEPT !.pc = "done", !.attempts = @ + 1,
                                      !.rollbacks = @ + 1,
                                      !.status = Except("ClientError"),
                                      !.raised = "ClientError",
                                      !.session = SessionScope("raise")]]
        /\ UNCHANGED ingester
        /\ UNCHANGED <<nodes, edges, now, calls, applied>>

(* The store fails on the projection statement *)
ProjectFail(t) ==
    LET r == task[t]
    IN  /\ r.pc = "project"
        /\ \E kind \in {"ServiceUnavailable", "ClientError"} :
              task' = [task EXCEPT ![t] =
                          [r EXCEPT !.pc = "done", !.attempts = @ + 1,
                                    !.rollbacks = @ + 1,
                                    !.status = Except(kind), !.raised = kind,
                                    !.session = SessionScope("raise")]]
        /\ query_count' = QueryCounted(query_count, "raise")
        /\ UNCHANGED ingester
        /\ UNCHANGED <<nodes, edges, now, calls, applied,
                       total_execution_time, projections>>

----------------------------------------------------------------------------
(* WikidataIngester.execute_sparql_query *)

client ==
    <<nodes, edges, now, task, query_count, applied, total_execution_time,
      projections>>

(* time.time() advances *)
TickClock ==
    /\ clock < MaxClock
    /\ clock' = clock + 1
    /\ UNCHANGED <<last_request_time, requests, sparql, calls,
                   sparql_query_count, pipeline>>
    /\ UNCHANGED client

(* if current_time - self.last_request_time < self.request_delay: the time *)
(* the call sleeps (0: it does not sleep)                                  *)
Throttle(current_time, last) ==
    IF current_time - last < request_delay
    THEN request_delay - (current_time - last)
    ELSE 0

(* The call starts: it reads the clock and either sleeps or goes on to the *)
(* request.                                                                *)
execute_sparql_query(t) ==
    /\ sparql[t].pc \in {"idle", "done"}
    /\ calls < MaxSparqlCalls
    /\ LET pause == Throttle(clock, last_request_time)
       IN  sparql' = [sparql EXCEPT ![t] =
                         [pc |-> IF pause > 0 THEN "sleep" ELSE "get",
                          wake |-> clock + pause, status |-> "none",
                          result |-> "none"]]
    /\ calls' = calls + 1
    /\ UNCHANGED <<clock, last_request_time, requests, sparql_query_count,
                   pipeline>>
    /\ UNCHANGED client

(* asyncio.sleep returns once the time has passed *)
Wake(t) ==
    /\ sparql[t].pc = "sleep"
    /\ clock >= sparql[t].wake
    /\ sparql' = [sparql EXCEPT ![t].pc = "get"]
    /\ UNCHANGED <<clock, last_request_time, requests, calls,
                   sparql_query_count, pipeline>>
    /\ UNCHANGED client

(* session.get: the request leaves *)
Get(t) ==
    /\ sparql[t].pc = "get"
    /\ requests' = Append(requests, clock)
    /\ sparql' = [sparql EXCEPT ![t].pc = "response"]
    /\ UNCHANGED <<clock, last_request_time, calls, sparql_query_count,
                   pipeline>>
    /\ UNCHANGED client

Responses == {"200", "429", "ClientError"}

LastRequestTimeAlways(response, last) == clock

(* self.last_request_time = time.time() under if response.status == 200 *)
LastRequestTime(response, last) == IF response = "200" THEN clock ELSE last

(* The response arrives: status 200 records the time and returns the       *)
(* bindings, another status returns [], an exception is raised (the retry  *)
(* decorator wraps an async def here too).                                 *)
Response(t) ==
    /\ sparql[t].pc = "response"
    /\ \E response \in Responses :
          /\ last_request_time' = LastRequestTime(response, last_request_time)
          /\ sparql_query_count' =
                IF response = "200"
                THEN sparql_query_count + 1 ELSE sparql_query_count
          /\ sparql' = [sparql EXCEPT ![t] =
                IF response = "200"
                THEN [@ EXCEPT !.pc = "done", !.status = response,
                               !.result = "bindings"]
                ELSE IF response = "429"
                THEN [@ EXCEPT !.pc = "done", !.status = response,
                               !.result = "empty"]
                ELSE IF AfterFailure(response, 1) = "retry"
                THEN [@ EXCEPT !.pc = "get", !.status = response]
                ELSE [@ EXCEPT !.pc = "done", !.status = response,
                               !.result = "raised"]]
    /\ UNCHANGED <<clock, requests, calls, pipeline>>
    /\ UNCHANGED client

----------------------------------------------------------------------------
(* run_wikidata_ingestion_pipeline and WikidataIngester.ingest_to_neo4j *)

WikidataEntity == [wikidata_id : {"Q1", "Q2"}, label : Names]

BasePermids == {0, 5}

(* The task on which the pipeline awaits its client calls *)
Awaiting == CHOOSE t \in Tasks : \A u \in Tasks : t <= u

sparqls == <<clock, last_request_time, requests, sparql, sparql_query_count>>

(* Steps 1 to 3: the two searches return and their lists are combined *)
run_wikidata_ingestion_pipeline ==
    /\ pipeline.pc = "idle"
    /\ \E tech_companies, specific_entities \in
             SeqsUpTo(WikidataEntity, MaxFound) :
          pipeline' = [IdlePipeline EXCEPT
                          !.pc = "dedup",
                          !.all_entities = tech_companies \o specific_entities]
    /\ UNCHANGED <<sparqls, calls>>
    /\ UNCHANGED client

SeenId(entity, seen_labels) == entity.wikidata_id \in seen_labels

(* entity.label in seen_labels *)
Seen(entity, seen_labels) == entity.label \in seen_labels

(* One iteration of for entity in all_entities *)
Deduplicate ==
    /\ pipeline.pc = "dedup"
    /\ pipeline.idx <= Len(pipeline.all_entities)
    /\ LET entity == pipeline.all_entities[pipeline.idx]
       IN  pipeline' =
              IF Seen(entity, pipeline.seen_labels)
              THEN [pipeline EXCEPT !.idx = @ + 1]
              ELSE [pipeline EXCEPT
                       !.idx = @ + 1,
                       !.unique_entities = Append(@, entity),
                       !.seen_labels = @ \cup {entity.label}]
    /\ UNCHANGED <<sparqls, calls>>
    /\ UNCHANGED client

(* else: return {'status': 'NO_DATA'} *)
NoData ==
    /\ pipeline.pc = "dedup"
    /\ pipeline.idx > Len(pipeline.all_entities)
    /\ pipeline.unique_entities = <<>>
    /\ pipeline' = [pipeline EXCEPT !.pc = "done", !.status = "NO_DATA"]
    /\ UNCHANGED <<sparqls, calls>>
    /\ UNCHANGED client

(* if unique_entities: ingest_to_neo4j(unique_entities) is entered *)
ingest_to_neo4j ==
    /\ pipeline.pc = "dedup"
    /\ pipeline.idx > Len(pipeline.all_entities)
    /\ pipeline.unique_entities # <<>>
    /\ \E base_permid \in BasePermids :
          pipeline' = [pipeline EXCEPT !.pc = "convert", !.idx = 1,
                                      !.base_permid = base_permid]
    /\ UNCHANGED <<sparqls, calls>>
    /\ UNCHANGED client

(* permid = base_permid + i *)
SyntheticPermid(base_permid, i) == base_permid + i

(* _calculate_match_score of an entity that has its label only: the base   *)
(* score, the lowest of the scale.                                         *)
BaseScore == CHOOSE m \in Scores : \A x \in Scores : m <= x

(* One iteration of for i, entity in enumerate(entities) *)
Convert ==
    /\ pipeline.pc = "convert"
    /\ pipeline.idx <= Len(pipeline.unique_entities)
    /\ LET i == pipeline.idx - 1
           entity == pipeline.unique_entities[pipeline.idx]
           company == NewCompanyEntity(
                          SyntheticPermid(pipeline.base_permid, i),
                          entity.label, BaseScore)
       IN  pipeline' = [pipeline EXCEPT !.idx = @ + 1,
                                       !.companies = Append(@, company)]
    /\ UNCHANGED <<sparqls, calls>>
    /\ UNCHANGED client

(* await self.neo4j_client.batch_ingest_companies(companies) *)
IngestCompanies ==
    /\ pipeline.pc = "convert"
    /\ pipeline.idx > Len(pipeline.unique_entities)
    /\ Free(Awaiting)
    /\ task' = [task EXCEPT ![Awaiting] =
                   [StartQuery("batch", AllOk) EXCEPT
                       !.companies = pipeline.companies,
                       !.total = Len(pipeline.companies)]]
    /\ pipeline' = [pipeline EXCEPT !.pc = "ingest"]
    /\ calls' = calls + 1
    /\ UNCHANGED sparqls
    /\ UNCHANGED <<nodes, edges, now, query_count, applied,
                   total_execution_time, projections>>

(* Step 5: await neo4j_client.create_graph_projection() *)
Project ==
    /\ pipeline.pc = "ingest"
    /\ task[Awaiting].pc = "done"
    /\ task' = [task EXCEPT ![Awaiting] =
                   StartProjection("project", "supply_chain_graph")]
    /\ pipeline' = [pipeline EXCEPT !.pc = "project",
                                    !.status = task[Awaiting].status]
    /\ calls' = calls + 1
    /\ UNCHANGED sparqls
    /\ UNCHANGED <<nodes, edges, now, query_count, applied,
                   total_execution_time, projections>>

(* Steps 6 and 7 read statistics; the pipeline returns its results *)
Return ==
    /\ pipeline.pc = "project"
    /\ task[Awaiting].pc = "done"
    /\ pipeline' = [pipeline EXCEPT !.pc = "done"]
    /\ UNCHANGED <<sparqls, calls>>
    /\ UNCHANGED client

----------------------------------------------------------------------------
(* Specifications *)

Concurrent ==
    [plans |-> {AllOk}, inflight |-> NumTasks, budget |-> MaxCalls,
     records |-> Companies]

Linking ==
    [plans |-> {AllOk}, inflight |-> NumTasks, budget |-> MaxRelCalls,
     records |-> Companies]

Awaited ==
    [plans |-> Plans, inflight |-> 1, budget |-> MaxCalls,
     records |-> Companies]

(* Callers that hand over whatever they constructed, one call at a time *)
Unchecked ==
    [plans |-> {AllOk}, inflight |-> 1, budget |-> MaxRelCalls,
     records |-> Constructed({0, 1}, {"", "A"}, {1, 11})]

(* The store a client finds when an earlier run has ingested one batch *)
RECURSIVE Rows(_, _, _)
Rows(pend, companies, tag) ==
    IF companies = <<>> THEN pend
    ELSE Rows(MergeCompany(<<>>, pend, Head(companies), tag),
              Tail(companies), tag)

Seeds == {c \in Companies : c.match_score = MaxScore}

SeedBatches == SeqsUpTo(Seeds, MaxBatch)

InitRel ==
    /\ now = 0
    /\ \E b \in SeedBatches :
          /\ nodes = ApplyUpserts(<<>>, Rows(<<>>, b, "python_etl_batch"))
          /\ applied = [p \in Permids |-> Sent(b, p)]
    /\ edges = <<>>
    /\ task = [t \in Tasks |-> Idle]
    /\ calls = 0
    /\ query_count = 0
    /\ InitIngester
    /\ InitMetrics

(* Relationship calls racing with each other on that store *)
NextRel ==
    \/ Tick
    \/ \E t \in Tasks :
        \/ create_relationship(t, Linking)
        \/ create_supply_chain_relationships(t, Linking)
        \/ RunRel(t)
        \/ CommitRel(t)
        \/ TxRun(t)
        \/ TxFail(t)
        \/ TxCommit(t)

SpecRel == InitRel /\ [][NextRel]_vars

(* Concurrent upserts on a healthy store *)
NextUpsert ==
    \E t \in Tasks :
        \/ ingest_company_entity(t, Concurrent)
        \/ batch_ingest_companies(t, Concurrent)
        \/ RunUpsert(t)
        \/ CommitUpsert(t)

SpecUpsert == Init /\ [][NextUpsert]_vars

(* One call at a time, on a store that may fail *)
NextSeq ==
    \E t \in Tasks :
        \/ ingest_company_entity(t, Awaited)
        \/ batch_ingest_companies(t, Awaited)
        \/ QueryFail(t)
        \/ RunUpsert(t)
        \/ CommitUpsert(t)

SpecSeq == Init /\ [][NextSeq]_vars

(* Awaited upserts of entities no caller has checked *)
NextInput ==
    \E t \in Tasks :
        \/ ingest_company_entity(t, Unchecked)
        \/ batch_ingest_companies(t, Unchecked)
        \/ RunUpsert(t)
        \/ CommitUpsert(t)

SpecInput == Init /\ [][NextInput]_vars

(* Every operation of the client, each call awaited, on a store that may   *)
(* fail at any point.                                                      *)
Faulty ==
    [plans |-> Plans, inflight |-> 1, budget |-> MaxRelCalls,
     records |-> Seeds]

NextFaulty ==
    \/ Tick
    \/ \E t \in Tasks :
        \/ ingest_company_entity(t, Faulty)
        \/ batch_ingest_companies(t, Faulty)
        \/ create_relationship(t, Faulty)
        \/ create_supply_chain_relationships(t, Faulty)
        \/ QueryFail(t)
        \/ StatementFail(t)
        \/ RunUpsert(t)
        \/ CommitUpsert(t)
        \/ RunRel(t)
        \/ CommitRel(t)
        \/ TxRun(t)
        \/ TxFail(t)
        \/ TxCommit(t)

SpecFaulty == InitRel /\ [][NextFaulty]_vars

(* Concurrent execute_query calls on a store that may fail, while the      *)
(* clock of time.time() advances.                                          *)
Measured ==
    [plans |-> Plans, inflight |-> NumTasks, budget |-> MaxCalls,
     records |-> {c \in Seeds : c.permid = 1}]

NextMetrics ==
    \/ TickClock
    \/ \E t \in Tasks :
        \/ ingest_company_entity(t, Measured)
        \/ batch_ingest_companies(t, Measured)
        \/ QueryFail(t)
        \/ StatementFail(t)
        \/ RunUpsert(t)
        \/ CommitUpsert(t)

SpecMetrics == Init /\ [][NextMetrics]_vars

(* Projections created and dropped while entities are ingested *)
Projecting ==
    [plans |-> {AllOk}, inflight |-> NumTasks, budget |-> MaxCalls,
     records |-> Seeds]

NextProjection ==
    \E t \in Tasks :
        \/ ingest_company_entity(t, Projecting)
        \/ create_graph_projection(t, Projecting)
        \/ drop_graph_projection(t, Projecting)
        \/ RunUpsert(t)
        \/ CommitUpsert(t)
        \/ DropRun(t)
        \/ DropFail(t)
        \/ ProjectRun(t)
        \/ ProjectFail(t)

SpecProjection == Init /\ [][NextProjection]_vars

(* Calls of execute_sparql_query on one ingester *)
(* One run of the pipeline on a healthy store *)
NextPipeline ==
    \/ run_wikidata_ingestion_pipeline
    \/ Deduplicate
    \/ NoData
    \/ ingest_to_neo4j
    \/ Convert
    \/ IngestCompanies
    \/ Project
    \/ Return
    \/ \E t \in Tasks :
        \/ RunUpsert(t)
        \/ CommitUpsert(t)
        \/ DropRun(t)
        \/ ProjectRun(t)

SpecPipeline == Init /\ [][NextPipeline]_vars

NextSparql ==
    \/ TickClock
    \/ \E t \in Tasks :
        \/ execute_sparql_query(t)
        \/ Wake(t)
        \/ Get(t)
        \/ Response(t)

SpecSparql == Init /\ [][NextSparql]_vars

----------------------------------------------------------------------------
(* Properties *)

Stepped(t) == task'[t] # task[t]

Ends(t) == task[t].pc # "done" /\ task'[t].pc = "done"

(* C1: after any interleaving of ingest_company_entity and                 *)
(* batch_ingest_companies calls the store holds at most one Company node   *)
(* per permid.                                                             *)
C1_OneNodePerPermid ==
    \A p \in Permids : Cardinality(NodesWithPermid(nodes, p)) <= 1

(* C2: over any sequence of upsert calls no stored match_score decreases,  *)
(* and the score stored for a permid equals the highest score applied to   *)
(* it so far.                                                              *)
C2_MonotonicScore ==
    [][ /\ \A i \in 1..Len(nodes) :
              nodes'[i].match_score >= nodes[i].match_score
        /\ \A p \in Permids : \A i \in NodesWithPermid(nodes', p) :
              nodes'[i].match_score = applied'[p] ]_vars

(* An awaited upsert with a lower score has returned and the node kept the *)
(* higher stored score.                                                    *)
C2_Witness ==
    \E t \in Tasks :
        /\ task[t].pc = "done" /\ task[t].op = "ingest"
        /\ task[t].status = "SUCCESS"
        /\ \E i \in 1..Len(nodes) :
              /\ nodes[i].permid = task[t].companies[1].permid
              /\ nodes[i].match_score > task[t].companies[1].match_score

(* C3: once concurrent upserts of one permid have all completed, the store *)
(* has exactly one node for it, carrying the highest score issued.         *)
C3_ConcurrentConvergence ==
    (\A t \in Tasks : Free(t)) =>
        \A p \in Permids :
            applied[p] > 0 =>
                /\ Cardinality(NodesWithPermid(nodes, p)) = 1
                /\ \A i \in NodesWithPermid(nodes, p) :
                      nodes[i].match_score = applied[p]

(* C5: an execute_query call whose store fails transiently on the first    *)
(* two attempts and succeeds on the third returns the result, after three  *)
(* attempts.                                                               *)
C5_RetryThenSucceed ==
    [][ \A t \in Tasks :
          (/\ Ends(t)
           /\ task[t].pc \in {"query", "commit"}
           /\ task[t].plan = <<"ServiceUnavailable", "TransientError", "ok">>)
          => /\ task'[t].raised = "none"
             /\ task'[t].status # "ERROR"
             /\ task'[t].attempts = 3 ]_vars

(* C6: execute_query never makes more than Tries attempts, and a call that *)
(* ends in an error raises the error of its last attempt.                  *)
C6_BoundedAttempts ==
    [][ \A t \in Tasks :
          /\ task'[t].attempts <= Tries
          /\ (/\ Ends(t)
              /\ task[t].pc = "query"
              /\ task'[t].raised # "none")
             => task'[t].raised = OutcomeAt(task[t].plan, task'[t].attempts)
       ]_vars

(* A call whose attempts all failed transiently has ended with that error *)
C6_Witness ==
    \E t \in Tasks :
        /\ task[t].pc = "done"
        /\ task[t].raised \in Retryable
        /\ task[t].attempts >= 1

(* C7: an attempt of execute_query that fails with an error other than     *)
(* ServiceUnavailable and TransientError ends the call at once with that   *)
(* error: no further attempt is made.                                      *)
C7_NoRetryOnOtherErrors ==
    [][ \A t \in Tasks :
          (/\ Stepped(t)
           /\ task[t].pc = "query"
           /\ OutcomeAt(task[t].plan, task[t].attempts + 1)
                 \notin Retryable \cup {"ok"})
          => /\ task'[t].pc = "done"
             /\ task'[t].raised
                   = OutcomeAt(task[t].plan, task[t].attempts + 1)
             /\ task'[t].attempts = task[t].attempts + 1 ]_vars

(* A call has ended with a ClientError after exactly one attempt *)
C7_Witness ==
    \E t \in Tasks :
        /\ task[t].pc = "done"
        /\ task[t].raised = "ClientError"
        /\ task[t].attempts = 1

(* C4: when a statement of an execute_write_transaction scope fails, the   *)
(* store shows none of the effects of the earlier statements of the scope. *)
C4_AtomicScope ==
    [][ \A t \in Tasks :
          (/\ Stepped(t)
           /\ task[t].pc = "tx"
           /\ \/ task'[t].status = "ERROR"
              \/ task'[t].pc = "tx" /\ task'[t].attempts > task[t].attempts)
          => edges' = edges /\ nodes' = nodes ]_vars

(* A scope whose earlier statements had merged edges has failed and raised *)
C4_Witness ==
    \E t \in Tasks :
        /\ task[t].pc = "done" /\ task[t].op = "supply"
        /\ task[t].status = "ERROR"
        /\ task[t].idx >= 2
        /\ task[t].rolled_back >= 1

(* C8: create_relationship with a source or target name that matches no    *)
(* Company node returns a failure, creates no edge and no node; no         *)
(* relationship call changes the set of Company nodes.                     *)
C8_MissingEndpoint ==
    [][ \A t \in Tasks :
          /\ (/\ Ends(t)
              /\ task[t].op = "rel"
              /\ \/ NodesWithName(nodes, task[t].rel.source_name) = {}
                 \/ NodesWithName(nodes, task[t].rel.target_name) = {})
             => /\ task'[t].status \in {"FAILED", "ERROR"}
                /\ edges' = edges
          /\ (Stepped(t) /\ task'[t].op \in {"rel", "supply"})
             => nodes' = nodes ]_vars

(* A create_relationship naming a company that was never ingested has      *)
(* returned FAILED.                                                        *)
C8_Witness ==
    \E t \in Tasks :
        /\ task[t].pc = "done" /\ task[t].op = "rel"
        /\ task[t].status = "FAILED"
        /\ nodes # <<>>
        /\ edges = <<>>

(* C9: after any sequence of relationship calls the store holds at most    *)
(* one edge per (source node, target node, relationship type).             *)
C9_OneEdgePerTriple ==
    \A i, j \in 1..Len(edges) :
        (/\ edges[i].src = edges[j].src
         /\ edges[i].tgt = edges[j].tgt
         /\ edges[i].type = edges[j].type) => i = j

Linked(es, ns, pair) ==
    \E i \in 1..Len(es) :
        /\ es[i].type = "SUPPLY_COMPONENTS"
        /\ ns[es[i].src].name = pair[1]
        /\ ns[es[i].tgt].name = pair[2]

(* C10: a create_supply_chain_relationships call that returns has either   *)
(* an edge in the store for every requested pair or has added no edge.     *)
C10_AllOrNothing ==
    [][ \A t \in Tasks :
          (Ends(t) /\ task[t].op = "supply")
          => \/ \A i \in 1..Len(task[t].pairs) :
                   Linked(edges', nodes', task[t].pairs[i])
             \/ edges' = edges ]_vars

(* C11: when create_supply_chain_relationships returns SUCCESS with        *)
(* relationships_created = N, each of the N requested pairs has a          *)
(* SUPPLY_COMPONENTS edge in the store: a pair with a missing endpoint is  *)
(* not counted as created.                                                 *)
C11_CreatedCountsEdges ==
    [][ \A t \in Tasks :
          (/\ Ends(t)
           /\ task[t].op = "supply"
           /\ task'[t].status = "SUCCESS")
          => /\ task'[t].relationships_created <= Len(task[t].pairs)
             /\ \A i \in 1..task'[t].relationships_created :
                   Linked(edges', nodes', task[t].pairs[i]) ]_vars

(* The invariants spec.md states for a CompanyEntity (scores in tenths) *)
Valid(c) == c.permid > 0 /\ c.name # "" /\ c.match_score \in 0..10

(* C12: a CompanyEntity with a permid that is not positive, an empty name  *)
(* or a match_score outside [0,1] is rejected at construction, so no       *)
(* ingest operation issues a store statement for such a record.            *)
C12_NoStatementForMalformed ==
    [][ \A t \in Tasks :
          (/\ Stepped(t)
           /\ task[t].op \in {"ingest", "batch"}
           /\ task[t].pc \in {"query", "run"})
          => Valid(task[t].companies[task[t].idx]) ]_vars

(* The rows of a call that are the last one it sends for their permid *)
LastFor(companies) ==
    {k \in 1..Len(companies) :
        \A j \in (k + 1)..Len(companies) :
            companies[j].permid # companies[k].permid}

(* C13: when an upsert hits a permid that already has a node, every        *)
(* supplied attribute other than match_score (here the name) overwrites    *)
(* the stored value, whatever the relation between the two scores.         *)
C13_OtherAttributesOverwritten ==
    [][ \A t \in Tasks :
          (/\ Ends(t)
           /\ task[t].op \in {"ingest", "batch"}
           /\ task'[t].status = "SUCCESS")
          => \A k \in LastFor(task[t].companies) :
                \A i \in NodesWithPermid(nodes, task[t].companies[k].permid) :
                    nodes'[i].name = task[t].companies[k].name ]_vars

Repeated(companies) ==
    {p \in Permids :
        Cardinality({k \in 1..Len(companies) : companies[k].permid = p}) > 1}

(* The score stored for permid p (0: no node) *)
Stored(ns, p) ==
    IF NodesWithPermid(ns, p) = {} THEN 0
    ELSE ns[CHOOSE i \in NodesWithPermid(ns, p) : TRUE].match_score

C15_RequestsSpaced ==
    \A i, j \in 1..Len(requests) :
        i < j => requests[j] - requests[i] >= request_delay

(* C16: every session and transaction handle of execute_query and         *)
(* execute_write_transaction is released on every exit path: the attempt   *)
(* that exits normally commits exactly once and is not rolled back, each   *)
(* attempt that exits by an exception is rolled back and never commits,    *)
(* and no session is open once the call has returned or raised.            *)
C16_ScopedRelease ==
    \A t \in Tasks :
        LET r == task[t]
        IN  /\ Free(t) => r.session # "open"
            /\ (r.pc = "done" /\ r.session # "none") =>
                  /\ r.session = "closed"
                  /\ r.status \in {"SUCCESS", "OK", "FAILED"} =>
                        r.commits = 1 /\ r.rollbacks = r.attempts - 1
                  /\ r.status = "ERROR" =>
                        r.commits = 0 /\ r.rollbacks = r.attempts

(* One call has raised out of its scope after statements had run, another  *)
(* has committed on the attempt that followed a rolled-back one.           *)
C16_Witness ==
    \E t, u \in Tasks :
        /\ task[t].pc = "done" /\ task[t].status = "ERROR"
        /\ task[t].rolled_back >= 1 /\ task[t].session = "closed"
        /\ task[u].pc = "done" /\ task[u].status = "SUCCESS"
        /\ task[u].attempts = 2 /\ task[u].commits = 1
        /\ task[u].session = "closed"

(* C18: batch_ingest_companies and create_supply_chain_relationships      *)
(* never raise to the caller: every store failure comes back as a result   *)
(* with status ERROR, which for batch_ingest_companies has success_count 0 *)
(* and error_count equal to the batch length.                              *)
C18_StructuredFailure ==
    [][ \A t \in Tasks :
          (Ends(t) /\ task[t].op \in {"batch", "supply"})
          => /\ task'[t].status \in {"SUCCESS", "ERROR"}
             /\ task'[t].raised # "none" <=> task'[t].status = "ERROR"
             /\ (task'[t].status = "ERROR" /\ task[t].op = "batch")
                => /\ task'[t].success_count = 0
                   /\ task'[t].error_count = Len(task[t].companies)
                   /\ task'[t].total = Len(task[t].companies) ]_vars

(* A batch of two entities and a supply-chain call have both come back     *)
(* with status ERROR after the store failed.                               *)
C18_Witness ==
    \E t, u \in Tasks :
        /\ task[t].pc = "done" /\ task[t].op = "batch"
        /\ task[t].status = "ERROR" /\ task[t].raised = "ServiceUnavailable"
        /\ task[t].error_count = 2 /\ task[t].success_count = 0
        /\ task[u].pc = "done" /\ task[u].op = "supply"
        /\ task[u].status = "ERROR" /\ task[u].raised # "none"

CallerKeys == UNION {DOMAIN props : props \in RelProps}

(* C20: when create_relationship is called for a (source, target, type)    *)
(* whose edge already exists, the new property set replaces the edge's     *)
(* properties: no key of an earlier call that is absent from the new set   *)
(* stays on the edge.                                                      *)
C20_PropertiesReplaced ==
    [][ \A t \in Tasks :
          (/\ Ends(t)
           /\ task[t].op = "rel"
           /\ task'[t].status = "OK")
          => \A i \in 1..Len(edges) :
                (/\ nodes[edges[i].src].name = task[t].rel.source_name
                 /\ nodes[edges[i].tgt].name = task[t].rel.target_name
                 /\ edges[i].type = task[t].rel.relationship_type)
                => (DOMAIN edges'[i].props \cap CallerKeys)
                      \subseteq DOMAIN task[t].rel.properties ]_vars

(* The execute_query calls that return their records in this step *)
Returning ==
    {t \in Tasks : /\ task[t].pc = "commit"
                   /\ task'[t].pc = "done"
                   /\ task'[t].raised = "none"}

C22_ProjectionLifecycle ==
    [][ \A t \in Tasks :
          (Ends(t) /\ task'[t].status = "OK")
          => /\ task[t].op = "project"
                => projections'[task[t].name] = {Len(nodes')}
             /\ task[t].op = "drop"
                => projections'[task[t].name] = {} ]_vars

(* A projection that existed for a smaller store has been rebuilt by a     *)
(* second create_graph_projection.                                         *)
C22_Witness ==
    \E t \in Tasks :
        /\ task[t].pc = "done" /\ task[t].op = "project"
        /\ task[t].status = "OK"
        /\ task[t].replaced = {0}
        /\ projections[task[t].name] = {Len(nodes)}
        /\ Len(nodes) >= 1


(* The occurrences of permid p in a batch that carry its highest score *)
Highest(companies, p) ==
    {k \in 1..Len(companies) :
        /\ companies[k].permid = p
        /\ companies[k].match_score = Sent(companies, p)}

(* C23: when a permid appears several times in one batch, the node that    *)
(* results carries the attributes (here the name) of the occurrence with   *)
(* the highest match_score, not those of a lower-scored occurrence.        *)
C23_HighestOccurrenceAttributes ==
    [][ \A t \in Tasks :
          (/\ Ends(t)
           /\ task[t].op = "batch"
           /\ task'[t].status = "SUCCESS")
          => \A p \in Repeated(task[t].companies) :
                \A i \in NodesWithPermid(nodes', p) :
                    \E k \in Highest(task[t].companies, p) :
                        nodes'[i].name = task[t].companies[k].name ]_vars
(* The permids a batch names *)
Named(companies) == {companies[k].permid : k \in 1..Len(companies)}

(* C24: on success the count batch_ingest_companies returns is the number  *)
(* of nodes the batch affected, the number of distinct permids it created  *)
(* or merged; for pairwise distinct permids on an empty store it is the    *)
(* batch length and the store then holds that many Company nodes.          *)
C24_CountsAffectedNodes ==
    [][ \A t \in Tasks :
          (/\ Ends(t)
           /\ task[t].op = "batch"
           /\ task'[t].status = "SUCCESS")
          => /\ task'[t].success_count
                   = Cardinality(Named(task[t].companies))
             /\ (nodes = <<>> /\ Repeated(task[t].companies) = {})
                   => /\ task'[t].success_count = Len(task[t].companies)
                      /\ Len(nodes') = Len(task[t].companies) ]_vars
(* The edges that carry everything the MERGE pattern of statement o names *)
Matching(es, o) ==
    {i \in 1..Len(es) : /\ es[i].src = o.src /\ es[i].tgt = o.tgt
                        /\ es[i].type = o.type /\ HasProps(es[i], o.props)}

(* C25: execute_write_transaction runs the statements of one scope in the  *)
(* caller-specified order, each statement seeing the effects of the        *)
(* earlier ones (a MERGE that repeats an earlier one of the scope matches  *)
(* its edge and creates none), and on success returns exactly one result   *)
(* list per statement in that order.                                       *)
C25_OrderedScope ==
    [][ \A t \in Tasks :
          (/\ Ends(t)
           /\ task[t].op = "supply"
           /\ task'[t].status = "SUCCESS")
          => /\ task'[t].ran = task[t].pairs
             /\ Len(task'[t].results) = Len(task[t].pairs)
             /\ \A k \in 1..Len(task[t].pairs) :
                    task'[t].results[k] = Records(task[t].pairs[k])
             /\ \A j \in 1..Len(task[t].pending) :
                    Cardinality(Matching(edges', task[t].pending[j])) = 1 ]_vars

(* A scope of two statements for the same pair, run at the same store      *)
(* time, has committed: it returned two result lists and left one edge.    *)
C25_Witness ==
    \E t \in Tasks :
        /\ task[t].pc = "done" /\ task[t].op = "supply"
        /\ task[t].status = "SUCCESS"
        /\ Len(task[t].ran) = 2 /\ task[t].ran[1] = task[t].ran[2]
        /\ Len(task[t].results) = 2
        /\ now = 0 /\ calls = 1
        /\ Len(edges) = 1
(* The input list of the batch call that task t completes in this step *)
Input(t) == IF Free(t) THEN <<>> ELSE task[t].companies

(* C26: every result of batch_ingest_companies, for an empty input, a      *)
(* success or an error, has success_count + error_count = total, and total *)
(* is the length of the input list.                                        *)
C26_CountsAddUp ==
    [][ \A t \in Tasks :
          (/\ Stepped(t)
           /\ task'[t].pc = "done"
           /\ task'[t].op = "batch")
          => /\ task'[t].total = Len(Input(t))
             /\ task'[t].success_count + task'[t].error_count
                   = task'[t].total ]_vars
(* C27: batch_ingest_companies called with an empty list returns           *)
(* success_count 0, error_count 0 and total 0 without issuing a statement: *)
(* no session is opened, and the store, query_count and                    *)
(* total_execution_time are unchanged.                                     *)
C27_EmptyBatch ==
    [][ \A t \in Tasks :
          (/\ Free(t) /\ Stepped(t)
           /\ task'[t].op = "batch"
           /\ task'[t].companies = <<>>)
          => /\ task'[t].pc = "done"
             /\ task'[t].success_count = 0
             /\ task'[t].error_count = 0
             /\ task'[t].total = 0
             /\ task'[t].session = "none"
             /\ task'[t].attempts = 0
             /\ UNCHANGED <<nodes, edges, query_count,
                            total_execution_time>> ]_vars

(* An empty batch has returned after a counted query that took time *)
C27_Witness ==
    \E t \in Tasks :
        /\ task[t].pc = "done" /\ task[t].op = "batch"
        /\ task[t].companies = <<>> /\ task[t].total = 0
        /\ task[t].session = "none"
        /\ calls = 2 /\ query_count = 1 /\ total_execution_time = 1
        /\ Len(nodes) = 1
(* C28: ingestion_date and created_by ('python_etl' for single,            *)
(* 'python_etl_batch' for batch ingestion) are written by the upsert that  *)
(* creates the node and by no later ingest_company_entity or               *)
(* batch_ingest_companies call on the same permid.                         *)
C28_CreationMetadata ==
    [][ /\ Len(nodes') >= Len(nodes)
        /\ \A i \in 1..Len(nodes) :
              /\ nodes'[i].created_by = nodes[i].created_by
              /\ nodes'[i].ingestion_date = nodes[i].ingestion_date
        /\ \A t \in Tasks :
              (Ends(t) /\ task[t].op \in {"ingest", "batch"})
              => \A i \in (Len(nodes) + 1)..Len(nodes') :
                    /\ nodes'[i].created_by = CreatedBy(task[t].op)
                    /\ nodes'[i].ingestion_date \in 0..now ]_vars

(* A node created by ingest_company_entity at store time 0 has later been  *)
(* merged by a successful batch at store time 1.                           *)
C28_Witness ==
    \E t \in Tasks :
        /\ task[t].pc = "done" /\ task[t].op = "batch"
        /\ task[t].status = "SUCCESS"
        /\ now = 1
        /\ \E i \in 1..Len(nodes) :
              /\ nodes[i].created_by = "python_etl"
              /\ nodes[i].ingestion_date = 0
              /\ nodes[i].permid \in Named(task[t].companies)
FirstWith(entities, label) ==
    CHOOSE k \in 1..Len(entities) :
        /\ entities[k].label = label
        /\ \A j \in 1..(k - 1) : entities[j].label # label

Labels(entities) == {entities[k].label : k \in 1..Len(entities)}

(* C30: the label deduplication of the pipeline keeps, for every label of  *)
(* the combined list, exactly the first entity with that label, in the     *)
(* order of the combined list; ingest_to_neo4j gives the entity at         *)
(* position i the permid base_permid + i, so the entities of one call get  *)
(* pairwise distinct permids.                                              *)
C30_DedupAndPermids ==
    LET all == pipeline.all_entities
        unique == pipeline.unique_entities
        companies == pipeline.companies
    IN  /\ pipeline.pc \in {"convert", "ingest", "project", "done"}
           => /\ Len(unique) = Cardinality(Labels(all))
              /\ \A a \in 1..Len(unique) :
                    unique[a] = all[FirstWith(all, unique[a].label)]
              /\ \A a, b \in 1..Len(unique) :
                    a < b => FirstWith(all, unique[a].label)
                               < FirstWith(all, unique[b].label)
        /\ pipeline.pc \in {"ingest", "project", "done"}
           => /\ Len(companies) = Len(unique)
              /\ \A a \in 1..Len(companies) :
                    /\ companies[a].permid = pipeline.base_permid + (a - 1)
                    /\ companies[a].name = unique[a].label
              /\ \A a, b \in 1..Len(companies) :
                    a # b => companies[a].permid # companies[b].permid

(* A run has returned whose combined list held a label twice, under two    *)
(* identifiers, before another label: two entities were kept and ingested. *)
C30_Witness ==
    /\ pipeline.pc = "done"
    /\ Len(pipeline.all_entities) >= 3
    /\ pipeline.all_entities[1].label = pipeline.all_entities[2].label
    /\ pipeline.all_entities[1] # pipeline.all_entities[2]
    /\ Len(pipeline.unique_entities) = 2
    /\ Len(pipeline.companies) = 2
    /\ Len(nodes) = 2
====
